---- MODULE Spec2Model ----
(***************************************************************************)
(* KIIT-ChatBot backend: the notice store, the ingestion task              *)
(* (workers/tasks.py), the FAISS index with its slot mapping               *)
(* (db/faiss_store.py) and the retrieval step of the RAG service           *)
(* (services/rag_service.py).                                              *)
(*                                                                         *)
(* Text is a sequence of small numbers (characters, 0 is the space).       *)
(* A vector is one integer (a point on a line); IndexFlatL2 reports the    *)
(* squared L2 distance, here the squared difference.  Distances are kept   *)
(* doubled so that the threshold 1.5 is the integer 3.                     *)
(***************************************************************************)
EXTENDS Integers, Sequences, FiniteSets, TLC

\* ---------------------------------------------------------------- bounds
MaxDocs == 3
MaxRun == 2
MaxSlots == 3
MaxBatch == 2
MaxTopK == 2
MaxPopular == 2
MaxLimit == 3
MaxWindow == 2
MaxTime == 3
MaxChecks == 4
MaxGroupDocs == 6
MaxCallers == 3
MaxOverlapDocs == 2

\* ------------------------------------------------------- program constants
\* rag_service.py:26  similarity_threshold = 1.5, doubled
similarity_threshold2 == 3
\* rag_service.py:27  max_context_tokens
max_context_tokens == 2000
\* tasks.py:227 and 239: the versions cleanup_old_versions keeps of a notice
KeepVersions == 5
\* the distance FAISS reports for a padding entry (FLT_MAX), a stand-in
FLT_MAX == 1000000

Workers == {1, 2}
Titles == {<<1>>, <<1, 2>>}
Contents == {<<2, 3>>, <<3>>}
NoticeType == {"general", "exam"}

\* what the scraper may hand to the ingestion task (NoticeCreate): every title
\* with every content as an exam notice, and one of them as a general notice too
ExamCandidates ==
  [title : Titles, content : Contents, source_type : {"exam"}, date_published : {1}]

Candidates ==
  ExamCandidates \cup
    [title : {<<1>>}, content : {<<3>>}, source_type : {"general"}, date_published : {1}]

\* ---------------------------------------------------------------- helpers
RECURSIVE SumSeq(_)
SumSeq(s) == IF s = <<>> THEN 0 ELSE Head(s) + SumSeq(Tail(s))

Range(s) == {s[i] : i \in DOMAIN s}

Min(a, b) == IF a <= b THEN a ELSE b

\* the empty slot mapping ({} in Python)
EmptyMapping == [s \in {} |-> 0]

\* hash_utils.generate_content_hash: SHA-256 of the text, collision free:
\* two digests are equal exactly when the hashed texts are equal
generate_content_hash(text) == <<"sha256", text>>

\* embedding_service.combine_text_for_embedding: title twice, then content
combine_text_for_embedding(title, content) ==
  title \o <<0>> \o title \o <<0>> \o content

\* embedding_service.generate_embedding: the model is a black box, a
\* deterministic function of the text; empty text gives the zero vector
generate_embedding(text) == IF text = <<>> THEN 0 ELSE SumSeq(text)

\* squared L2 distance between two vectors, doubled
Distance2(u, v) == 2 * (u - v) * (u - v)

VARIABLES
  notices,        \* the notices collection: _id -> document
  next_id,        \* the next ObjectId insert_one hands out
  task,           \* scrape_all_sources runs: worker -> frame
  index_loaded,   \* faiss_store._index is not None
  index,          \* faiss_store._index: the stored vectors, slot i at i+1
  mapping,        \* faiss_store._mapping: slot -> notice id
  disk_index,     \* the file at FAISS_INDEX_PATH
  disk_mapping,   \* the file at FAISS_MAPPING_PATH
  ret,            \* the slots the last faiss_store call returned
  hits,           \* what the last faiss_store.search call returned
  query,          \* the last search_relevant_notices call's arguments
  results,        \* what it returned
  redis_up,       \* the Redis server of the cache answers
  responses,      \* Redis keys chat:response:<hash> -> cached response
  popular,        \* Redis sorted set chat:popular_queries: member -> score
  counters,       \* Redis keys rate_limit:<identifier> -> counter and expiry
  now,            \* the clock (time.time(), the Redis clock), in seconds
  rate_limits,    \* SimpleCache.rate_limits: client -> accepted request times
  accepted_at,    \* the times of the checks each identifier had accepted
  rate_config,    \* the limit and the window the rate limit checks are made with
  cache_ret,      \* what the last cache or rate limit call returned
  reply,          \* what the last RAG query or chat request returned
  writer,         \* the thread that writes the index: where it stands, its arguments
  reader,         \* a thread that searches: where it stands, what it got
  calls           \* check_rate_limit calls in flight: caller -> frame

vars == <<notices, next_id, task, index_loaded, index, mapping,
          disk_index, disk_mapping, ret, hits, query, results,
          redis_up, responses, popular, counters, now, rate_limits,
          accepted_at, rate_config, cache_ret, reply, writer, reader, calls>>

storeVars == <<notices, next_id>>
memVars == <<index_loaded, index, mapping>>
diskVars == <<disk_index, disk_mapping>>
queryVars == <<hits, query, results>>
redisVars == <<redis_up, responses, popular, counters>>
rateVars == <<now, rate_limits, accepted_at, rate_config>>
concVars == <<writer, reader, calls>>
serviceVars == <<redisVars, rateVars, cache_ret, reply, concVars>>

\* ------------------------------------------------------ db/faiss_store.py
\* The process-wide pair (_index, _mapping) and the two files, as values.
Mem == [loaded |-> index_loaded, index |-> index, mapping |-> mapping]
Disk == [index |-> disk_index, mapping |-> disk_mapping]

NoIndexFile == [state |-> "absent", vectors |-> <<>>]
NoMappingFile == [state |-> "absent", map |-> EmptyMapping]

\* init_index: a new, empty IndexFlatL2; _mapping is left as it is
init_index(m) == [loaded |-> TRUE, index |-> <<>>, mapping |-> m.mapping]

\* get_index: the index in memory, or the one loaded from disk, or a new one.
\* A mapping file that is missing leaves the loaded index with an empty
\* mapping; one that json.load rejects raises, which init_index answers.
get_index(m, d) ==
  IF m.loaded THEN m
  ELSE IF d.index.state = "ok"
    THEN IF d.mapping.state = "ok"
           THEN [loaded |-> TRUE, index |-> d.index.vectors, mapping |-> d.mapping.map]
         ELSE IF d.mapping.state = "absent"
           THEN [loaded |-> TRUE, index |-> d.index.vectors, mapping |-> EmptyMapping]
         ELSE init_index(m)
  ELSE init_index(m)

\* add_embedding with the slot taken as the count after the add
add_embedding_count_as_slot(m, d, notice_id, embedding) ==
  LET g == get_index(m, d)
      added == Append(g.index, embedding)
      position == Len(added)
  IN [mem |-> [loaded |-> TRUE, index |-> added,
               mapping |-> (position :> notice_id) @@ g.mapping],
      ret |-> position]

\* add_embedding: append the vector, map the last slot to the notice
add_embedding(m, d, notice_id, embedding) ==
  LET g == get_index(m, d)
      added == Append(g.index, embedding)
      position == Len(added) - 1
  IN [mem |-> [loaded |-> TRUE, index |-> added,
               mapping |-> (position :> notice_id) @@ g.mapping],
      ret |-> position]

\* batch_add_embeddings: append every vector, map start_position + i to the
\* i-th notice id
batch_add_embeddings(m, d, notice_ids, embeddings) ==
  LET g == get_index(m, d)
      start_position == Len(g.index)
      added == g.index \o embeddings
      new == [p \in {start_position + i - 1 : i \in DOMAIN notice_ids} |->
                notice_ids[p - start_position + 1]]
  IN [mem |-> [loaded |-> TRUE, index |-> added, mapping |-> new @@ g.mapping],
      ret |-> [i \in DOMAIN notice_ids |-> start_position + i - 1]]

\* IndexFlatL2.search: the slots by growing distance (ties by slot)
RECURSIVE NearestFirst(_, _, _)
NearestFirst(vectors, slots, q) ==
  IF slots = {} THEN <<>>
  ELSE LET best == CHOOSE s \in slots : \A t \in slots :
                     \/ Distance2(vectors[s + 1], q) < Distance2(vectors[t + 1], q)
                     \/ /\ Distance2(vectors[s + 1], q) = Distance2(vectors[t + 1], q)
                        /\ s <= t
       IN <<best>> \o NearestFirst(vectors, slots \ {best}, q)

\* search: FAISS answers with exactly top_k entries; when fewer vectors are
\* stored the rest are label -1 with distance FLT_MAX, returned as they are
search(g, query_embedding, top_k) ==
  LET order == NearestFirst(g.index, 0 .. (Len(g.index) - 1), query_embedding)
  IN [distances |-> [i \in 1 .. top_k |->
                       IF i <= Len(order)
                         THEN Distance2(g.index[order[i] + 1], query_embedding)
                         ELSE FLT_MAX],
      indices |-> [i \in 1 .. top_k |-> IF i <= Len(order) THEN order[i] ELSE -1]]

\* get_notice_ids: the ids of the slots the mapping knows, the others dropped
RECURSIVE get_notice_ids(_, _)
get_notice_ids(map, faiss_indices) ==
  IF faiss_indices = <<>> THEN <<>>
  ELSE (IF Head(faiss_indices) \in DOMAIN map
          THEN <<map[Head(faiss_indices)]>> ELSE <<>>)
       \o get_notice_ids(map, Tail(faiss_indices))

\* save_index: write the index file, then the mapping file; an exception is
\* logged and raised again, leaving what was written so far
SaveOutcomes == {"ok", "index_write_failed", "mapping_open_failed", "mapping_write_failed"}

save_index(m, d, outcome) ==
  IF ~m.loaded THEN d
  ELSE IF outcome = "index_write_failed"
    THEN [index |-> [state |-> "corrupt", vectors |-> <<>>], mapping |-> d.mapping]
  ELSE IF outcome = "mapping_open_failed"
    THEN [index |-> [state |-> "ok", vectors |-> m.index], mapping |-> d.mapping]
  ELSE IF outcome = "mapping_write_failed"
    THEN [index |-> [state |-> "ok", vectors |-> m.index],
          mapping |-> [state |-> "corrupt", map |-> EmptyMapping]]
  ELSE [index |-> [state |-> "ok", vectors |-> m.index],
        mapping |-> [state |-> "ok", map |-> m.mapping]]

\* get_index_stats
get_index_stats(m, d) ==
  LET g == get_index(m, d)
  IN [total_vectors |-> Len(g.index), mapping_size |-> Cardinality(DOMAIN g.mapping)]

\* rebuild_index: a new index and an empty mapping, the pairs added as one
\* batch, then saved
rebuild_index(m, d, notice_embeddings, outcome) ==
  LET fresh == [loaded |-> TRUE, index |-> <<>>, mapping |-> EmptyMapping]
      filled == IF notice_embeddings = <<>> THEN fresh
                ELSE batch_add_embeddings(fresh, d,
                       [i \in DOMAIN notice_embeddings |-> notice_embeddings[i][1]],
                       [i \in DOMAIN notice_embeddings |-> notice_embeddings[i][2]]).mem
  IN [mem |-> filled, disk |-> save_index(filled, d, outcome)]

\* ---------------------------------------------------------- initial state
\* A fresh process and empty stores: no module global is set, no file exists.
NoNotice == [title |-> <<>>, content |-> <<>>, source_type |-> "none", date_published |-> 0]

IdleFrame ==
  [pc |-> "idle", notice |-> NoNotice, existing_by_title |-> 0, existing_version |-> 0,
   version |-> 0, previous_version_id |-> 0, notice_id |-> 0,
   new_count |-> 0, updated_count |-> 0, unchanged_count |-> 0]

NoHits == [top_k |-> 0, distances |-> <<>>, indices |-> <<>>]
NoReturn == [op |-> "none"]
NoReply == [op |-> "none"]
IdleWriter == [pc |-> "idle", op |-> "none", notice_ids |-> <<>>, embeddings |-> <<>>,
               start_position |-> 0, i |-> 0]
IdleReader == [pc |-> "idle", indices |-> <<>>, distances |-> <<>>, notice_ids |-> <<>>]
NoQuery == [text |-> <<>>, top_k |-> 0, type |-> "any", from_date |-> 0, to_date |-> 0]

Init ==
  /\ notices = [i \in {} |-> 0]
  /\ next_id = 1
  /\ task = [w \in Workers |-> IdleFrame]
  /\ index_loaded = FALSE
  /\ index = <<>>
  /\ mapping = EmptyMapping
  /\ disk_index = NoIndexFile
  /\ disk_mapping = NoMappingFile
  /\ ret = <<>>
  /\ hits = NoHits
  /\ query = NoQuery
  /\ results = <<>>
  /\ redis_up = TRUE
  /\ responses = EmptyMapping
  /\ popular = EmptyMapping
  /\ counters = EmptyMapping
  /\ now = 0
  /\ rate_limits = EmptyMapping
  /\ accepted_at = EmptyMapping
  /\ rate_config = [limit |-> MaxLimit, window |-> MaxWindow]
  /\ cache_ret = NoReturn
  /\ reply = NoReply
  /\ writer = IdleWriter
  /\ reader = IdleReader
  /\ calls = EmptyMapping

SetMem(m) ==
  /\ index_loaded' = m.loaded
  /\ index' = m.index
  /\ mapping' = m.mapping

SetDisk(d) ==
  /\ disk_index' = d.index
  /\ disk_mapping' = d.mapping

\* ----------------------------------------- calls of the faiss_store module
\* A notice's vector is a function of its text, so an id comes with its vector.
StoreNotices == {<<1, 5>>, <<2, 7>>}

AddEmbedding ==
  \E ne \in StoreNotices :
    LET r == add_embedding(Mem, Disk, ne[1], ne[2])
    IN /\ Len(get_index(Mem, Disk).index) < MaxSlots
       /\ SetMem(r.mem)
       /\ ret' = <<r.ret>>
       /\ UNCHANGED <<storeVars, task, diskVars, queryVars, serviceVars>>

BatchAddEmbeddings ==
  \E n \in 0 .. MaxBatch :
    \E batch \in [1 .. n -> StoreNotices] :
      LET r == batch_add_embeddings(Mem, Disk, [i \in 1 .. n |-> batch[i][1]],
                                    [i \in 1 .. n |-> batch[i][2]])
      IN /\ Len(get_index(Mem, Disk).index) + n <= MaxSlots
         /\ SetMem(r.mem)
         /\ ret' = r.ret
         /\ UNCHANGED <<storeVars, task, diskVars, queryVars, serviceVars>>

RebuildIndex ==
  \E n \in 0 .. MaxBatch, outcome \in SaveOutcomes :
    \E notice_embeddings \in [1 .. n -> StoreNotices] :
      LET r == rebuild_index(Mem, Disk, notice_embeddings, outcome)
      IN /\ SetMem(r.mem)
         /\ SetDisk(r.disk)
         /\ ret' = <<>>
         /\ UNCHANGED <<storeVars, task, queryVars, serviceVars>>

NextStore == AddEmbedding \/ BatchAddEmbeddings \/ RebuildIndex

SpecStore == Init /\ [][NextStore]_vars

\* ------------------------------------- the index across process restarts
\* embeddings of the query texts
QueryEmbeddings == {5, 8}

\* save_index called on its own
SaveIndex ==
  \E outcome \in SaveOutcomes :
    /\ index_loaded
    /\ SetDisk(save_index(Mem, Disk, outcome))
    /\ UNCHANGED <<storeVars, task, memVars, ret, queryVars, serviceVars>>

\* The process ends and a new one starts: the module globals are back to
\* their initial values (_index = None, _mapping = {}); the files stay.
Restart ==
  /\ index_loaded
  /\ \A w \in Workers : task[w].pc = "idle"
  /\ index_loaded' = FALSE
  /\ index' = <<>>
  /\ mapping' = EmptyMapping
  /\ ret' = <<>>
  /\ hits' = NoHits
  /\ UNCHANGED <<storeVars, task, diskVars, query, results, serviceVars>>

\* the first get_index() of a process, by whichever caller
GetIndex ==
  /\ ~index_loaded
  /\ SetMem(get_index(Mem, Disk))
  /\ UNCHANGED <<storeVars, task, diskVars, ret, queryVars, serviceVars>>

\* faiss_store.search(query_embedding, top_k)
Search ==
  \E query_embedding \in QueryEmbeddings, top_k \in 1 .. (2 * MaxTopK) :
    LET g == get_index(Mem, Disk)
        r == search(g, query_embedding, top_k)
    IN /\ SetMem(g)
       /\ hits' = [top_k |-> top_k, distances |-> r.distances, indices |-> r.indices]
       /\ UNCHANGED <<storeVars, task, diskVars, ret, query, results, serviceVars>>

\* the index and its files across saves and restarts
NextLoad ==
  \/ AddEmbedding
  \/ RebuildIndex
  \/ SaveIndex
  \/ Restart
  \/ GetIndex

SpecLoad == Init /\ [][NextLoad]_vars

\* the index under searches
NextSearch ==
  \/ AddEmbedding
  \/ Search

SpecSearch == Init /\ [][NextSearch]_vars

\* --------------------- faiss_store: one writer thread and a reader thread
\* The module takes no lock: the statements of a writer's call and of a
\* reader's calls interleave.  A call is cut where it changes _index or
\* _mapping.
Others == <<storeVars, task, diskVars, ret, queryVars, redisVars, rateVars,
            cache_ret, reply, calls>>

\* add_embedding, lines 74-81: the vector is added
WriterAddEmbedding ==
  \E ne \in StoreNotices :
    LET g == get_index(Mem, Disk)
    IN /\ writer.pc = "idle"
       /\ Len(g.index) < MaxSlots
       /\ SetMem([g EXCEPT !.index = Append(g.index, ne[2])])
       /\ writer' = [pc |-> "map", op |-> "add_embedding", notice_ids |-> <<ne[1]>>,
                     embeddings |-> <<ne[2]>>, start_position |-> Len(g.index), i |-> 1]
       /\ UNCHANGED <<Others, reader>>

\* batch_add_embeddings, lines 106-112: the vectors are added
WriterBatchAddEmbeddings ==
  \E n \in 1 .. MaxBatch :
    \E batch \in [1 .. n -> StoreNotices] :
      LET g == get_index(Mem, Disk)
      IN /\ writer.pc = "idle"
         /\ Len(g.index) + n <= MaxSlots
         /\ SetMem([g EXCEPT !.index = g.index \o [i \in 1 .. n |-> batch[i][2]]])
         /\ writer' = [pc |-> "map", op |-> "batch_add_embeddings",
                       notice_ids |-> [i \in 1 .. n |-> batch[i][1]],
                       embeddings |-> [i \in 1 .. n |-> batch[i][2]],
                       start_position |-> Len(g.index), i |-> 1]
         /\ UNCHANGED <<Others, reader>>

\* lines 84-87 and 116-119: one entry of the mapping is written
WriterMapSlot ==
  /\ writer.pc = "map"
  /\ mapping' = ((writer.start_position + writer.i - 1) :> writer.notice_ids[writer.i])
                  @@ mapping
  /\ writer' = IF writer.i < Len(writer.notice_ids)
                 THEN [writer EXCEPT !.i = @ + 1]
                 ELSE IF writer.op = "rebuild_index"
                   THEN [writer EXCEPT !.pc = "save"]
                   ELSE IdleWriter
  /\ UNCHANGED <<Others, reader, index_loaded, index>>

\* rebuild_index, line 222: _index = init_index()
WriterRebuildInit ==
  \E n \in 0 .. MaxBatch :
    \E notice_embeddings \in [1 .. n -> StoreNotices] :
      /\ writer.pc = "idle"
      /\ SetMem(init_index(Mem))
      /\ writer' = [pc |-> "clear", op |-> "rebuild_index",
                    notice_ids |-> [i \in 1 .. n |-> notice_embeddings[i][1]],
                    embeddings |-> [i \in 1 .. n |-> notice_embeddings[i][2]],
                    start_position |-> 0, i |-> 1]
      /\ UNCHANGED <<Others, reader>>

\* line 223: _mapping = {}
WriterRebuildClear ==
  /\ writer.pc = "clear"
  /\ mapping' = EmptyMapping
  /\ writer' = [writer EXCEPT !.pc = IF writer.notice_ids = <<>> THEN "save" ELSE "batch_add"]
  /\ UNCHANGED <<Others, reader, index_loaded, index>>

\* lines 226-229 with 106-112: the vectors of the rebuild are added
WriterRebuildAdd ==
  /\ writer.pc = "batch_add"
  /\ index' = index \o writer.embeddings
  /\ writer' = [writer EXCEPT !.pc = "map", !.start_position = Len(index)]
  /\ UNCHANGED <<Others, reader, index_loaded, mapping>>

\* line 232: save_index(), the files written without an error
WriterRebuildSave ==
  /\ writer.pc = "save"
  /\ SetDisk(save_index(Mem, Disk, "ok"))
  /\ writer' = IdleWriter
  /\ UNCHANGED <<storeVars, task, memVars, ret, queryVars, redisVars, rateVars,
                 cache_ret, reply, calls, reader>>

\* the reader's search(query_embedding, top_k)
ReaderSearch ==
  \E query_embedding \in QueryEmbeddings :
    LET g == get_index(Mem, Disk)
        r == search(g, query_embedding, MaxTopK)
    IN /\ reader.pc = "idle"
       /\ SetMem(g)
       /\ reader' = [pc |-> "searched", indices |-> r.indices, distances |-> r.distances,
                     notice_ids |-> <<>>]
       /\ UNCHANGED <<Others, writer>>

\* the reader's get_notice_ids(indices) on what search gave it
ReaderGetNoticeIds ==
  /\ reader.pc = "searched"
  /\ reader' = [reader EXCEPT !.pc = "idle",
                              !.notice_ids = get_notice_ids(mapping, reader.indices)]
  /\ UNCHANGED <<Others, writer, memVars>>

NextThreads ==
  \/ WriterAddEmbedding
  \/ WriterBatchAddEmbeddings
  \/ WriterMapSlot
  \/ WriterRebuildInit
  \/ WriterRebuildClear
  \/ WriterRebuildAdd
  \/ WriterRebuildSave
  \/ ReaderSearch
  \/ ReaderGetNoticeIds

SpecThreads == Init /\ [][NextThreads]_vars

\* ------------------------------------- workers/tasks.py: scrape_all_sources
\* One run is a frame: where it stands (pc) and its locals.  Every access to
\* the notices collection is a step of its own.  The per-source counters and
\* the totals in stats are kept as one set of counters.  The locals of one
\* iteration are cleared when it ends (the next iteration assigns them before
\* it reads them), and the frame is gone when the run returns or raises.
NextIteration(f) ==
  [IdleFrame EXCEPT !.pc = "loop", !.new_count = f.new_count,
                    !.updated_count = f.updated_count,
                    !.unchanged_count = f.unchanged_count]

LatestByTitle(title, source_type) ==
  {id \in DOMAIN notices : /\ notices[id].title = title
                           /\ notices[id].source_type = source_type
                           /\ notices[id].is_latest}

\* a lookup by hash that never finds a document
ExistingByHash_never(content_hash, source_type) == FALSE

\* find_one({'content_hash': ..., 'source_type': ...}) found a document
ExistingByHash(content_hash, source_type) ==
  \E id \in DOMAIN notices : /\ notices[id].content_hash = content_hash
                             /\ notices[id].source_type = source_type

Processed(f) == f.new_count + f.updated_count + f.unchanged_count

\* runs that are between reading a candidate and inserting its document
InFlight == Cardinality({w \in Workers : task[w].pc \in {"find_title", "update_old", "insert"}})

\* lines 40-59: the services, the scrape, the zeroed statistics
StartScrape(w) ==
  /\ task[w].pc = "idle"
  /\ task' = [task EXCEPT ![w] = [IdleFrame EXCEPT !.pc = "loop"]]
  /\ UNCHANGED <<storeVars, memVars, diskVars, ret, queryVars, serviceVars>>

\* lines 69-82: the next candidate, its hash, the lookup by hash
CheckHashWithin(w, notice, max_docs) ==
  LET content_hash == generate_content_hash(notice.title \o notice.content)
  IN /\ task[w].pc = "loop"
     /\ Processed(task[w]) < MaxRun
     /\ next_id + InFlight <= max_docs
     /\ IF ExistingByHash(content_hash, notice.source_type)
          THEN task' = [task EXCEPT ![w].unchanged_count = @ + 1]
          ELSE task' = [task EXCEPT ![w].notice = notice, ![w].pc = "find_title"]
     /\ UNCHANGED <<storeVars, memVars, diskVars, ret, queryVars, serviceVars>>

CheckHashOf(w, notice) == CheckHashWithin(w, notice, MaxDocs)

CheckHash(w, scraped) == \E notice \in scraped : CheckHashOf(w, notice)

\* lines 85-91 and 101-105: the lookup of the current version by title
FindByTitle(w) ==
  LET f == task[w]
      found == LatestByTitle(f.notice.title, f.notice.source_type)
  IN /\ f.pc = "find_title"
     /\ IF found = {}
          THEN task' = [task EXCEPT ![w].pc = "insert",
                                    ![w].existing_by_title = 0,
                                    ![w].version = 1,
                                    ![w].previous_version_id = 0,
                                    ![w].new_count = @ + 1]
          ELSE \E id \in found :
                 task' = [task EXCEPT ![w].pc = "update_old",
                                      ![w].existing_by_title = id,
                                      ![w].existing_version = notices[id].version]
     /\ UNCHANGED <<storeVars, memVars, diskVars, ret, queryVars, serviceVars>>

\* an update that keeps the old version's number
MarkOld_same_version(w) ==
  LET f == task[w]
  IN /\ f.pc = "update_old"
     /\ notices' = IF f.existing_by_title \in DOMAIN notices
                     THEN [notices EXCEPT ![f.existing_by_title].is_latest = FALSE]
                     ELSE notices
     /\ task' = [task EXCEPT ![w].pc = "insert",
                             ![w].version = f.existing_version,
                             ![w].previous_version_id = f.existing_by_title,
                             ![w].updated_count = @ + 1]
     /\ UNCHANGED <<next_id, memVars, diskVars, ret, queryVars, serviceVars>>

\* lines 92-100: the old version marked not latest, the new version's number
MarkOld(w) ==
  LET f == task[w]
  IN /\ f.pc = "update_old"
     /\ notices' = IF f.existing_by_title \in DOMAIN notices
                     THEN [notices EXCEPT ![f.existing_by_title].is_latest = FALSE]
                     ELSE notices
     /\ task' = [task EXCEPT ![w].pc = "insert",
                             ![w].version = f.existing_version + 1,
                             ![w].previous_version_id = f.existing_by_title,
                             ![w].updated_count = @ + 1]
     /\ UNCHANGED <<next_id, memVars, diskVars, ret, queryVars, serviceVars>>

\* lines 110-129: the document that is inserted
notice_doc(f) ==
  [title |-> f.notice.title,
   content |-> f.notice.content,
   date_published |-> f.notice.date_published,
   source_type |-> f.notice.source_type,
   content_hash |-> generate_content_hash(f.notice.title \o f.notice.content),
   version |-> f.version,
   is_latest |-> TRUE,
   previous_version_id |-> f.previous_version_id]

\* lines 131-133: insert_one
InsertNotice(w) ==
  LET f == task[w]
  IN /\ f.pc = "insert"
     /\ notices' = (next_id :> notice_doc(f)) @@ notices
     /\ next_id' = next_id + 1
     /\ task' = [task EXCEPT ![w].pc = "embed", ![w].notice_id = next_id]
     /\ UNCHANGED <<memVars, diskVars, ret, queryVars, serviceVars>>

\* insert_one raises: lines 163-165 log and raise again, the run is over
InsertRaises(w) ==
  /\ task[w].pc = "insert"
  /\ task' = [task EXCEPT ![w] = IdleFrame]
  /\ UNCHANGED <<storeVars, memVars, diskVars, ret, queryVars, serviceVars>>

\* lines 135-138: embed_notice adds the notice's vector to the index
EmbedNotice(w) ==
  LET f == task[w]
      r == add_embedding(Mem, Disk, f.notice_id,
             generate_embedding(combine_text_for_embedding(f.notice.title, f.notice.content)))
  IN /\ f.pc = "embed"
     /\ SetMem(r.mem)
     /\ task' = [task EXCEPT ![w] = NextIteration(f)]
     /\ UNCHANGED <<storeVars, diskVars, ret, queryVars, serviceVars>>

\* a failed embedding that ends the run
EmbedRaises_aborts(w) ==
  /\ task[w].pc = "embed"
  /\ task' = [task EXCEPT ![w] = IdleFrame]
  /\ UNCHANGED <<storeVars, memVars, diskVars, ret, queryVars, serviceVars>>

\* lines 139-140: embed_notice raises, the error is logged, the run goes on
EmbedRaises(w) ==
  /\ task[w].pc = "embed"
  /\ task' = [task EXCEPT ![w] = NextIteration(task[w])]
  /\ UNCHANGED <<storeVars, memVars, diskVars, ret, queryVars, serviceVars>>

\* cache_service.py:27-31: the key prefixes.  A Redis key is the pair of its
\* prefix and the rest; no prefix is the beginning of another one, so a key
\* matches the pattern "<prefix>*" exactly when its prefix is that prefix.
RESPONSE_PREFIX == "chat:response:"
POPULAR_QUERIES_KEY == "chat:popular_queries"
SCRAPER_LAST_RUN_PREFIX == "scraper:last_run:"
\* a deletion that takes every key of the database
delete_cache_pattern_all(store, up, prefix) ==
  IF up THEN EmptyMapping ELSE store

\* redis_client.delete_cache_pattern: KEYS pattern, then DEL of what it
\* gave; nothing is deleted when the client raises
delete_cache_pattern(store, up, prefix) ==
  IF up THEN [k \in {key \in DOMAIN store : key[1] # prefix} |-> store[k]]
  ELSE store

\* the sorted set of the popular queries is one key of the database
delete_sorted_set_pattern(zset, up, prefix) ==
  IF <<POPULAR_QUERIES_KEY>> \in
       DOMAIN delete_cache_pattern(<<POPULAR_QUERIES_KEY>> :> zset, up, prefix)
    THEN zset
    ELSE EmptyMapping

\* cache_service.py:152-168 (and 128-150): every key "chat:response:*" is deleted
InvalidateResponses ==
  /\ responses' = delete_cache_pattern(responses, redis_up, RESPONSE_PREFIX)
  /\ counters' = delete_cache_pattern(counters, redis_up, RESPONSE_PREFIX)
  /\ popular' = delete_sorted_set_pattern(popular, redis_up, RESPONSE_PREFIX)

\* lines 142-161: the response cache is invalidated when a notice was created
\* or updated, the statistics are returned.  (set_scraper_last_run at line 154
\* stores nothing: set_cache is called with ttl=None, SETEX rejects it and
\* set_cache returns False.)
FinishScrape(w) ==
  /\ task[w].pc = "loop"
  /\ task' = [task EXCEPT ![w] = IdleFrame]
  /\ IF task[w].new_count > 0 \/ task[w].updated_count > 0
       THEN InvalidateResponses
       ELSE UNCHANGED <<responses, popular, counters>>
  /\ UNCHANGED <<storeVars, memVars, diskVars, ret, queryVars,
                 redis_up, rateVars, cache_ret, reply, concVars>>

\* a step of a run in which no access to the collection raises
ScrapeStepOk(w, scraped) ==
  \/ StartScrape(w)
  \/ CheckHash(w, scraped)
  \/ FindByTitle(w)
  \/ MarkOld(w)
  \/ InsertNotice(w)
  \/ EmbedNotice(w)
  \/ EmbedRaises(w)
  \/ FinishScrape(w)

ScrapeStep(w, scraped) ==
  \/ ScrapeStepOk(w, scraped)
  \/ InsertRaises(w)

\* ------------------------------------ workers/tasks.py: rebuild_faiss_index
RECURSIVE SortedIds(_)
SortedIds(ids) ==
  IF ids = {} THEN <<>>
  ELSE LET least == CHOOSE i \in ids : \A j \in ids : i <= j
       IN <<least>> \o SortedIds(ids \ {least})

\* embedding_service.embed_and_index_notices_batch: embed, add as one batch
\* to the index that is there, save
embed_and_index_notices_batch(m, d, notice_data, outcome) ==
  IF notice_data = <<>> THEN [mem |-> m, disk |-> d]
  ELSE LET r == batch_add_embeddings(m, d,
                  [i \in DOMAIN notice_data |-> notice_data[i][1]],
                  [i \in DOMAIN notice_data |-> generate_embedding(notice_data[i][2])])
       IN [mem |-> r.mem, disk |-> save_index(r.mem, d, outcome)]

\* the task: every latest notice goes through embed_notices_batch; it returns
\* when nothing raised (outcome "ok")
RebuildFaissIndex(outcome) ==
  LET latest == SortedIds({id \in DOMAIN notices : notices[id].is_latest})
      notice_data == [i \in DOMAIN latest |->
                        <<latest[i], combine_text_for_embedding(notices[latest[i]].title,
                                                                notices[latest[i]].content)>>]
      r == IF outcome = "embedding_failed"
             THEN [mem |-> Mem, disk |-> Disk]
             ELSE embed_and_index_notices_batch(Mem, Disk, notice_data, outcome)
  IN /\ \A w \in Workers : task[w].pc = "idle"
     /\ Len(get_index(Mem, Disk).index) + Len(latest) <= MaxSlots
     /\ SetMem(r.mem)
     /\ SetDisk(r.disk)
     /\ UNCHANGED <<storeVars, task, ret, queryVars, serviceVars>>

RebuildOutcomes == SaveOutcomes \cup {"embedding_failed"}

\* ---------------------------------- workers/tasks.py: cleanup_old_versions
\* lines 220-228: the documents of one (title, source_type) group
GroupOf(store, id) ==
  {other \in DOMAIN store : /\ store[other].title = store[id].title
                            /\ store[other].source_type = store[id].source_type}

\* lines 234-243: of every group of more than five documents the first five
\* by descending version are kept and the others deleted.  The order in which
\* $push hands over documents of equal version is not fixed, so every
\* deletion that agrees with the order of the versions is possible.
CleanupDeletions(store) ==
  {to_delete \in SUBSET DOMAIN store :
     \A id \in DOMAIN store :
       LET group == GroupOf(store, id)
           gone == group \cap to_delete
       IN IF Cardinality(group) > KeepVersions
            THEN /\ Cardinality(gone) = Cardinality(group) - KeepVersions
                 /\ \A d \in gone, k \in group \ gone : store[d].version <= store[k].version
            ELSE gone = {}}

\* the task, when there is a group to clean
CleanupOldVersions ==
  /\ \E id \in DOMAIN notices : Cardinality(GroupOf(notices, id)) > KeepVersions
  /\ \E to_delete \in CleanupDeletions(notices) :
       notices' = [id \in DOMAIN notices \ to_delete |-> notices[id]]
  /\ UNCHANGED <<next_id, task, memVars, diskVars, ret, queryVars, serviceVars>>

\* two workers ingest revisions of one notice, each candidate with a content
\* not seen before, while the cleanup task runs now and then; the second
\* worker takes candidates only among the first MaxOverlapDocs
FreshRevision ==
  [title |-> <<1>>, content |-> <<next_id + InFlight>>, source_type |-> "exam",
   date_published |-> 1]

NextCleanup ==
  \/ CheckHashWithin(1, FreshRevision, MaxGroupDocs)
  \/ CheckHashWithin(2, FreshRevision, MaxOverlapDocs)
  \/ \E w \in Workers :
       \/ StartScrape(w)
       \/ FindByTitle(w)
       \/ MarkOld(w)
       \/ InsertNotice(w)
       \/ EmbedNotice(w)
       \/ FinishScrape(w)
  \/ CleanupOldVersions

SpecCleanup == Init /\ [][NextCleanup]_vars

\* ----------------------------- services/rag_service.py: search_relevant_notices
\* the queries of the model: a text, top_k, and the filters ("any" and 0 stand
\* for a filter that is not given)
QueryTexts == {<<5>>, <<4, 4>>}

Queries ==
  [text : QueryTexts, top_k : {MaxTopK}, type : {"any"}, from_date : {0}, to_date : {0}]
    \cup [text : {<<5>>}, top_k : {1}, type : {"exam"}, from_date : {0}, to_date : {0}]
    \cup [text : {<<5>>}, top_k : {MaxTopK}, type : {"any"}, from_date : {2}, to_date : {2}]

\* lines 66-83: the query sent to the collection
mongo_query(store, notice_ids, q) ==
  {id \in DOMAIN store :
     /\ id \in Range(notice_ids)
     /\ store[id].is_latest
     /\ q.type # "any" => store[id].source_type = q.type
     /\ q.from_date # 0 => store[id].date_published >= q.from_date
     /\ q.to_date # 0 => store[id].date_published <= q.to_date}

\* 1 / (1 + distance) as a fraction <<numerator, denominator>>; the distances
\* of the model are doubled
similarity_score(distance2) == <<2, 2 + distance2>>

AtLeast(a, b) == a[1] * b[2] >= b[1] * a[2]

\* list.sort(key = similarity_score, reverse = True): a stable sort
RECURSIVE SortBySimilarity(_)
SortBySimilarity(rs) ==
  IF rs = <<>> THEN <<>>
  ELSE LET best == CHOOSE i \in DOMAIN rs :
                     /\ \A j \in DOMAIN rs :
                          AtLeast(rs[i].similarity_score, rs[j].similarity_score)
                     /\ \A j \in 1 .. (i - 1) :
                          ~AtLeast(rs[j].similarity_score, rs[i].similarity_score)
       IN <<rs[best]>> \o
            SortBySimilarity([k \in 1 .. (Len(rs) - 1) |-> IF k < best THEN rs[k] ELSE rs[k + 1]])

\* lines 85-103: the i-th notice id is scored with the i-th distance
RECURSIVE ScoreFrom(_, _, _, _, _)
ScoreFrom(i, notice_ids, distances, found, store) ==
  IF i > Len(notice_ids) THEN <<>>
  ELSE (IF /\ notice_ids[i] \in found
           /\ i <= Len(distances)
           /\ distances[i] <= similarity_threshold2
          THEN <<[notice |-> [id |-> notice_ids[i],
                              title |-> store[notice_ids[i]].title,
                              content |-> store[notice_ids[i]].content],
                  similarity_score |-> similarity_score(distances[i]),
                  distance |-> distances[i]]>>
          ELSE <<>>)
       \o ScoreFrom(i + 1, notice_ids, distances, found, store)

\* lines 45-114: what the method returns when nothing raises
search_relevant_notices(g, store, q) ==
  LET r == search(g, generate_embedding(q.text), q.top_k * 2)
      notice_ids == get_notice_ids(g.mapping, r.indices)
      found == mongo_query(store, notice_ids, q)
      sorted == SortBySimilarity(ScoreFrom(1, notice_ids, r.distances, found, store))
  IN IF notice_ids = <<>> THEN <<>>
     ELSE SubSeq(sorted, 1, Min(q.top_k, Len(sorted)))

\* one call; lines 116-118: whatever raises, the empty list is returned
SearchRelevantNotices ==
  \E q \in Queries, raises \in BOOLEAN :
    LET g == get_index(Mem, Disk)
    IN /\ query' = q
       /\ IF raises
            THEN results' = <<>> /\ UNCHANGED memVars
            ELSE results' = search_relevant_notices(g, notices, q) /\ SetMem(g)
       /\ UNCHANGED <<storeVars, task, diskVars, ret, hits, serviceVars>>

\* a near notice and a far one that revise each other; the rebuild task,
\* restarts and queries
QueryCandidates ==
  [title : {<<1>>}, content : Contents, source_type : {"exam"}, date_published : {1}]

NextQuery ==
  \/ ScrapeStep(1, QueryCandidates)
  \/ \E outcome \in RebuildOutcomes : RebuildFaissIndex(outcome)
  \/ Restart
  \/ SearchRelevantNotices

SpecQuery == Init /\ [][NextQuery]_vars

\* one worker: the runs follow each other
NextSeq == ScrapeStep(1, Candidates)

SpecSeq == Init /\ [][NextSeq]_vars

\* one worker, and insert_one never raises: every ingest runs to its end;
\* three contents under each title, so that a notice is revised twice
ChainCandidates ==
  [title : Titles, content : Contents \cup {<<4>>}, source_type : {"exam"},
   date_published : {1}]

NextComplete == ScrapeStepOk(1, ChainCandidates)

SpecComplete == Init /\ [][NextComplete]_vars

\* one worker, the scrape and the rebuild task one after the other
RebuildCandidates ==
  [title : {<<1>>}, content : Contents, source_type : {"exam"}, date_published : {1}]

NextRebuild ==
  \/ ScrapeStep(1, RebuildCandidates)
  \/ \E outcome \in RebuildOutcomes : RebuildFaissIndex(outcome)

SpecRebuild == Init /\ [][NextRebuild]_vars

\* two workers: runs overlap
Next == \E w \in Workers : ScrapeStep(w, ExamCandidates)

Spec == Init /\ [][Next]_vars

\* ------------------------------------ db/redis_client.py, cache_service.py
\* Characters: 0 is the space, 1 and 2 are lower-case letters, 11 and 12 the
\* same letters in upper case.
lower(text) == [i \in DOMAIN text |-> IF text[i] > 10 THEN text[i] - 10 ELSE text[i]]

RECURSIVE lstrip(_)
lstrip(text) ==
  IF text # <<>> /\ Head(text) = 0 THEN lstrip(Tail(text)) ELSE text

RECURSIVE rstrip(_)
rstrip(text) ==
  IF text # <<>> /\ text[Len(text)] = 0
    THEN rstrip(SubSeq(text, 1, Len(text) - 1)) ELSE text

strip(text) == rstrip(lstrip(text))

\* CacheService._generate_query_hash: the digest of query.lower().strip(),
\* two digests are equal exactly when the normalized texts are equal
generate_query_hash(q) == <<"sha256_16", strip(lower(q))>>

response_key(query_hash) == <<RESPONSE_PREFIX, query_hash>>

\* redis_client.set_cache: setex, False when the client raises
set_cache(store, up, key, value) ==
  IF up THEN [store |-> (key :> value) @@ store, ok |-> TRUE]
  ELSE [store |-> store, ok |-> FALSE]

\* a read that answers from a local copy while the server is down
get_cache_while_down(store, up, key) ==
  IF key \in DOMAIN store
    THEN [found |-> TRUE, value |-> store[key]]
    ELSE [found |-> FALSE]

\* redis_client.get_cache: the value, None when absent or the client raises
get_cache(store, up, key) ==
  IF up /\ key \in DOMAIN store
    THEN [found |-> TRUE, value |-> store[key]]
    ELSE [found |-> FALSE]

\* redis_client.add_to_sorted_set: zadd key {member: score}
add_to_sorted_set(zset, up, member, score) ==
  IF up THEN (member :> score) @@ zset ELSE zset

\* CacheService.track_query
track_query(zset, up, q) == add_to_sorted_set(zset, up, strip(lower(q)), 1)

\* a read that derives its key without lower-casing the query
get_cached_response_no_lower(store, up, q) ==
  get_cache(store, up, response_key(<<"sha256_16", strip(q)>>))

\* CacheService.get_cached_response
get_cached_response(store, up, q) ==
  get_cache(store, up, response_key(generate_query_hash(q)))

\* the texts users send, the answers and the source lists of the model
UserQueries == {<<1>>, <<11, 0>>, <<0, 1>>, <<2>>, <<12>>}
Answers == {"answer_1", "answer_2"}
SourceLists == {<<>>, <<1>>}

GetCachedResponseOf(q) ==
  /\ cache_ret' = [op |-> "get_cached_response", query |-> q,
                   result |-> get_cached_response(responses, redis_up, q)]
  /\ UNCHANGED <<storeVars, task, memVars, diskVars, ret, queryVars,
                 redisVars, rateVars, reply, concVars>>

GetCachedResponse == \E q \in UserQueries : GetCachedResponseOf(q)

\* CacheService.set_cached_response: the entry, then the popularity of the query
SetCachedResponseOf(q, response, sources) ==
  LET cache_data == [query |-> q, response |-> response, sources |-> sources,
                     from_cache |-> TRUE]
      r == set_cache(responses, redis_up, response_key(generate_query_hash(q)), cache_data)
  IN /\ responses' = r.store
     /\ popular' = IF r.ok THEN track_query(popular, redis_up, q) ELSE popular
     /\ cache_ret' = [op |-> "set_cached_response", query |-> q, result |-> r.ok]
     /\ UNCHANGED <<storeVars, task, memVars, diskVars, ret, queryVars,
                    redis_up, counters, rateVars, reply, concVars>>

SetCachedResponse ==
  \E q \in UserQueries, response \in Answers, sources \in SourceLists :
    SetCachedResponseOf(q, response, sources)

\* the TTL of a cached response runs out
ExpireResponse ==
  \E key \in DOMAIN responses :
    /\ responses' = [k \in DOMAIN responses \ {key} |-> responses[k]]
    /\ UNCHANGED <<storeVars, task, memVars, diskVars, ret, queryVars,
                   redis_up, popular, counters, rateVars, cache_ret, reply, concVars>>

\* CacheService.invalidate_all_response_cache
InvalidateAllResponseCache ==
  /\ InvalidateResponses
  /\ cache_ret' = [op |-> "invalidate_all_response_cache",
                   result |-> Cardinality(DOMAIN responses) - Cardinality(DOMAIN responses')]
  /\ UNCHANGED <<storeVars, task, memVars, diskVars, ret, queryVars,
                 redis_up, rateVars, reply, concVars>>

\* CacheService.invalidate_cache_for_notice_type: the same pattern whatever
\* the notice type
InvalidateCacheForNoticeType ==
  \E notice_type \in NoticeType :
    /\ InvalidateResponses
    /\ cache_ret' = [op |-> "invalidate_cache_for_notice_type", notice_type |-> notice_type,
                     result |-> Cardinality(DOMAIN responses) - Cardinality(DOMAIN responses')]
    /\ UNCHANGED <<storeVars, task, memVars, diskVars, ret, queryVars,
                   redis_up, rateVars, reply, concVars>>

\* the Redis server stops answering, and answers again
RedisFails ==
  /\ redis_up
  /\ redis_up' = FALSE
  /\ UNCHANGED <<storeVars, task, memVars, diskVars, ret, queryVars,
                 responses, popular, counters, rateVars, cache_ret, reply, concVars>>

RedisRecovers ==
  /\ ~redis_up
  /\ redis_up' = TRUE
  /\ UNCHANGED <<storeVars, task, memVars, diskVars, ret, queryVars,
                 responses, popular, counters, rateVars, cache_ret, reply, concVars>>


\* the order of a Redis sorted set read from the top: the higher score first,
\* among equal scores the member that sorts later first
RECURSIVE LexLess(_, _)
LexLess(a, b) ==
  IF b = <<>> THEN FALSE
  ELSE IF a = <<>> THEN TRUE
  ELSE IF Head(a) # Head(b) THEN Head(a) < Head(b)
  ELSE LexLess(Tail(a), Tail(b))

RECURSIVE zrevrange_all(_)
zrevrange_all(zset) ==
  IF DOMAIN zset = {} THEN <<>>
  ELSE LET top == CHOOSE m \in DOMAIN zset :
                    \A other \in DOMAIN zset \ {m} :
                      \/ zset[other] < zset[m]
                      \/ zset[other] = zset[m] /\ LexLess(other, m)
       IN <<<<top, zset[top]>>>> \o
            zrevrange_all([m \in DOMAIN zset \ {top} |-> zset[m]])

\* redis_client.get_top_from_sorted_set: zrevrange(key, 0, count - 1, withscores)
get_top_from_sorted_set(zset, up, count) ==
  IF up THEN SubSeq(zrevrange_all(zset), 1, Min(count, Cardinality(DOMAIN zset)))
  ELSE <<>>

\* CacheService.track_query as a call of its own
TrackQueryOf(q) ==
  /\ popular' = track_query(popular, redis_up, q)
  /\ cache_ret' = [op |-> "track_query", query |-> q]
  /\ UNCHANGED <<storeVars, task, memVars, diskVars, ret, queryVars,
                 redis_up, responses, counters, rateVars, reply, concVars>>

TrackQuery == \E q \in UserQueries : TrackQueryOf(q)

\* CacheService.get_popular_queries
GetPopularQueries ==
  \E count \in 1 .. MaxPopular :
    /\ cache_ret' = [op |-> "get_popular_queries", count |-> count,
                     result |-> get_top_from_sorted_set(popular, redis_up, count)]
    /\ UNCHANGED <<storeVars, task, memVars, diskVars, ret, queryVars,
                   redisVars, rateVars, reply, concVars>>

\* the response cache and the popularity of queries
NextCache ==
  \/ GetCachedResponse
  \/ SetCachedResponse
  \/ ExpireResponse
  \/ InvalidateAllResponseCache
  \/ TrackQuery
  \/ GetPopularQueries
  \/ RedisFails
  \/ RedisRecovers

SpecCache == Init /\ [][NextCache]_vars

\* ------------------------------------------- services/cache.py: SimpleCache
Clients == {"10.0.0.1", "10.0.0.2"}

\* the configurations a deployment may run with (RATE_LIMIT_PER_MINUTE and
\* the window of the middleware, in the seconds of the model's clock)
RateConfigs == [limit : 1 .. MaxLimit, window : 1 .. MaxWindow]

InitRate ==
  \E config \in RateConfigs :
    /\ notices = [i \in {} |-> 0]
    /\ next_id = 1
    /\ task = [w \in Workers |-> IdleFrame]
    /\ index_loaded = FALSE
    /\ index = <<>>
    /\ mapping = EmptyMapping
    /\ disk_index = NoIndexFile
    /\ disk_mapping = NoMappingFile
    /\ ret = <<>>
    /\ hits = NoHits
    /\ query = NoQuery
    /\ results = <<>>
    /\ redis_up = TRUE
    /\ responses = EmptyMapping
    /\ popular = EmptyMapping
    /\ counters = EmptyMapping
    /\ now = 0
    /\ rate_limits = EmptyMapping
    /\ accepted_at = EmptyMapping
    /\ rate_config = config
    /\ cache_ret = NoReturn
    /\ reply = NoReply
    /\ writer = IdleWriter
    /\ reader = IdleReader
    /\ calls = EmptyMapping

\* time passes
Tick ==
  /\ now < MaxTime
  /\ now' = now + 1
  /\ UNCHANGED <<storeVars, task, memVars, diskVars, ret, queryVars, redisVars,
                 rate_limits, accepted_at, rate_config, cache_ret, reply, concVars>>

\* the accepted checks of an identifier so far
AcceptedAt(identifier) ==
  IF identifier \in DOMAIN accepted_at THEN accepted_at[identifier] ELSE <<>>

\* a check whose pruning keeps the requests that are exactly one window old
check_rate_limit_keep_boundary(limits, client_ip, limit, window, t) ==
  LET old == IF client_ip \in DOMAIN limits THEN limits[client_ip] ELSE <<>>
      kept == SelectSeq(old, LAMBDA req_time : t - req_time <= window)
  IN IF Len(kept) >= limit
       THEN [rate_limits |-> (client_ip :> kept) @@ limits,
             allowed |-> FALSE, count |-> Len(kept)]
       ELSE [rate_limits |-> (client_ip :> Append(kept, t)) @@ limits,
             allowed |-> TRUE, count |-> Len(kept) + 1]

\* SimpleCache.check_rate_limit at time t
check_rate_limit(limits, client_ip, limit, window, t) ==
  LET old == IF client_ip \in DOMAIN limits THEN limits[client_ip] ELSE <<>>
      kept == SelectSeq(old, LAMBDA req_time : t - req_time < window)
  IN IF Len(kept) >= limit
       THEN [rate_limits |-> (client_ip :> kept) @@ limits,
             allowed |-> FALSE, count |-> Len(kept)]
       ELSE [rate_limits |-> (client_ip :> Append(kept, t)) @@ limits,
             allowed |-> TRUE, count |-> Len(kept) + 1]

\* main.rate_limit_middleware: one request of a client
CheckRateLimitOf(client_ip) ==
  LET r == check_rate_limit(rate_limits, client_ip, rate_config.limit,
                            rate_config.window, now)
  IN /\ Len(AcceptedAt(client_ip)) < MaxChecks
     /\ rate_limits' = r.rate_limits
     /\ accepted_at' = IF r.allowed
                         THEN (client_ip :> Append(AcceptedAt(client_ip), now)) @@ accepted_at
                         ELSE accepted_at
     /\ cache_ret' = [op |-> "check_rate_limit", identifier |-> client_ip,
                      allowed |-> r.allowed, count |-> r.count, at |-> now]
     /\ UNCHANGED <<storeVars, task, memVars, diskVars, ret, queryVars, redisVars,
                    now, rate_config, reply, concVars>>

CheckRateLimit == \E client_ip \in Clients : CheckRateLimitOf(client_ip)

NextRate ==
  \/ Tick
  \/ CheckRateLimit

SpecRate == InitRate /\ [][NextRate]_vars

\* --------------------------- cache_service.py: CacheService.check_rate_limit
\* a Redis key that has a TTL is gone once the TTL has run out
Live(keys, key, t) == key \in DOMAIN keys /\ t < keys[key].expires_at

\* a counter that is set to 1 by every call
increment_counter_set(keys, up, key, ttl, t) ==
  IF ~up THEN [keys |-> keys, count |-> 0]
  ELSE [keys |-> (key :> [count |-> 1, expires_at |-> t + ttl]) @@ keys, count |-> 1]

\* redis_client.increment_counter: INCR and EXPIRE in one pipeline; 0 when
\* the client raises
increment_counter(keys, up, key, ttl, t) ==
  IF ~up THEN [keys |-> keys, count |-> 0]
  ELSE LET count == IF Live(keys, key, t) THEN keys[key].count + 1 ELSE 1
       IN [keys |-> (key :> [count |-> count, expires_at |-> t + ttl]) @@ keys,
           count |-> count]

RATE_LIMIT_PREFIX == "rate_limit:"

\* CacheService.check_rate_limit: one check of an identifier
CacheCheckRateLimitOf(identifier) ==
  LET r == increment_counter(counters, redis_up, <<RATE_LIMIT_PREFIX, identifier>>,
                             rate_config.window, now)
      is_allowed == r.count <= rate_config.limit
  IN /\ Len(AcceptedAt(identifier)) < MaxChecks
     /\ ~redis_up \/ r.count <= MaxChecks
     /\ counters' = r.keys
     /\ accepted_at' = IF is_allowed
                         THEN (identifier :> Append(AcceptedAt(identifier), now)) @@ accepted_at
                         ELSE accepted_at
     /\ cache_ret' = [op |-> "cache_check_rate_limit", identifier |-> identifier,
                      allowed |-> is_allowed, count |-> r.count, at |-> now]
     /\ UNCHANGED <<storeVars, task, memVars, diskVars, ret, queryVars,
                    redis_up, responses, popular, now, rate_limits, rate_config, reply, concVars>>

CacheCheckRateLimit == \E identifier \in Clients : CacheCheckRateLimitOf(identifier)

NextRedisRate ==
  \/ Tick
  \/ CacheCheckRateLimit

SpecRedisRate == InitRate /\ [][NextRedisRate]_vars

\* ------------------- check_rate_limit calls of one identifier in a burst
\* The calls of a burst are made at one time of the clock.  A call of
\* CacheService.check_rate_limit is two steps: the pipeline, which Redis runs
\* as one transaction (MULTI/EXEC), and the comparison on the caller's side.
\* SimpleCache.check_rate_limit is called by the middleware on the event loop
\* and has no await in it: a call is one step.
Callers == 1 .. MaxCallers
BurstIdentifier == "10.0.0.1"

CallsOf(impl) == {c \in Callers : <<impl, c>> \in DOMAIN calls}

\* redis_client.increment_counter, run for a call that has just been made
BurstIncrement(c) ==
  LET r == increment_counter(counters, redis_up, <<RATE_LIMIT_PREFIX, BurstIdentifier>>,
                             rate_config.window, now)
  IN /\ <<"redis", c>> \notin DOMAIN calls
     /\ counters' = r.keys
     /\ calls' = (<<"redis", c>> :> [pc |-> "counted", count |-> r.count, allowed |-> FALSE])
                   @@ calls
     /\ UNCHANGED <<storeVars, task, memVars, diskVars, ret, queryVars, redis_up,
                    responses, popular, rateVars, cache_ret, reply, writer, reader>>

\* cache_service.py:272-273: is_allowed = count <= limit, the call returns
BurstReturn(c) ==
  /\ <<"redis", c>> \in DOMAIN calls
  /\ calls[<<"redis", c>>].pc = "counted"
  /\ calls' = [calls EXCEPT ![<<"redis", c>>].pc = "done",
                            ![<<"redis", c>>].allowed =
                               calls[<<"redis", c>>].count <= rate_config.limit]
  /\ UNCHANGED <<storeVars, task, memVars, diskVars, ret, queryVars, redisVars,
                 rateVars, cache_ret, reply, writer, reader>>

\* one request through main.rate_limit_middleware
BurstSimpleCheck(c) ==
  LET r == check_rate_limit(rate_limits, BurstIdentifier, rate_config.limit,
                            rate_config.window, now)
  IN /\ <<"simple", c>> \notin DOMAIN calls
     /\ rate_limits' = r.rate_limits
     /\ calls' = (<<"simple", c>> :> [pc |-> "done", count |-> r.count, allowed |-> r.allowed])
                   @@ calls
     /\ UNCHANGED <<storeVars, task, memVars, diskVars, ret, queryVars, redisVars,
                    now, accepted_at, rate_config, cache_ret, reply, writer, reader>>

NextBurst ==
  \E c \in Callers :
    \/ BurstIncrement(c)
    \/ BurstReturn(c)
    \/ BurstSimpleCheck(c)

SpecBurst == InitRate /\ [][NextBurst]_vars

\* ------------------------- rag_service.py: build_context, query, query_stream
\* Here a notice is what the formatting reads of it: its id and the lengths,
\* in characters, of its title, link and content; context strings are kept
\* as their length and the ids of the notices they hold.
FoundNotices ==
  {[id |-> 1, title_len |-> 20, source_type |-> "exam", url_len |-> 30, content_len |-> 500],
   [id |-> 2, title_len |-> 20, source_type |-> "exam", url_len |-> 30, content_len |-> 9000],
   [id |-> 3, title_len |-> 120, source_type |-> "exam", url_len |-> 90, content_len |-> 7900],
   [id |-> 4, title_len |-> 30, source_type |-> "general", url_len |-> 30, content_len |-> 7750]}

\* the lists search_relevant_notices may find: at most top_k different notices
SearchResultLists ==
  {rs \in UNION {[1 .. n -> [notice : FoundNotices]] : n \in 0 .. MaxTopK} :
     \A i, j \in DOMAIN rs : i # j => rs[i].notice.id # rs[j].notice.id}

TypeLen(source_type) == IF source_type = "exam" THEN 4 ELSE 7

\* lines 154-156: "\n[i] title (Published: YYYY-MM-DD, Source: type)\n",
\* "URL: url\n", "Content: content\n" with a one digit i: 56 characters
\* around the four texts
entry_len(notice, content_len) ==
  56 + notice.title_len + TypeLen(notice.source_type) + notice.url_len + content_len

\* lines 144-173 from entry i on
RECURSIVE context_from(_, _, _, _)
context_from(i, search_results, max_chars, current_chars) ==
  IF i > Len(search_results) THEN [chars |-> current_chars, included |-> <<>>]
  ELSE LET notice == search_results[i].notice
           len == entry_len(notice, notice.content_len)
           remaining_chars == max_chars - current_chars - 200
       IN IF current_chars + len > max_chars
            THEN IF remaining_chars > 100
                   THEN [chars |-> current_chars
                                     + entry_len(notice, Min(notice.content_len, remaining_chars) + 3),
                         included |-> <<notice.id>>]
                   ELSE [chars |-> current_chars, included |-> <<>>]
            ELSE LET rest == context_from(i + 1, search_results, max_chars, current_chars + len)
                 IN [chars |-> rest.chars, included |-> <<notice.id>> \o rest.included]

\* RAGService.build_context; the first part, "Context from official KIIT
\* sources:\n", has 36 characters
build_context(search_results, max_tokens) ==
  IF search_results = <<>> THEN [chars |-> 0, included |-> <<>>]
  ELSE context_from(1, search_results, max_tokens * 4, 36)

\* RAGService.extract_sources
extract_sources(search_results) ==
  [i \in DOMAIN search_results |-> search_results[i].notice.id]

NoInformation == "I don't have recent information about that."
GenerationApology == "I apologize, but I'm having trouble generating a response right now."
Generated == "generated answer"

\* RAGService.generate_response: the generator's answer, the apology when
\* it raises
generate_response(llm_raises) == IF llm_raises THEN GenerationApology ELSE Generated

\* lines 46-118 seen from query: what was found, or the empty list when
\* embedding, search or the fetch of the documents raised
search_returns(found, search_raises) == IF search_raises THEN <<>> ELSE found

\* a query that generates whatever the search returned
rag_query_always_generates(found, search_raises, llm_raises) ==
  LET search_results == search_returns(found, search_raises)
  IN [response |-> generate_response(llm_raises),
      sources |-> extract_sources(search_results),
      context_used |-> TRUE,
      context |-> build_context(search_results, max_context_tokens),
      llm_called |-> TRUE]

\* RAGService.query, lines 319-346
rag_query(found, search_raises, llm_raises) ==
  LET search_results == search_returns(found, search_raises)
  IN IF search_results = <<>>
       THEN [response |-> NoInformation, sources |-> <<>>, context_used |-> FALSE,
             context |-> build_context(<<>>, max_context_tokens), llm_called |-> FALSE]
       ELSE [response |-> generate_response(llm_raises),
             sources |-> extract_sources(search_results),
             context_used |-> TRUE,
             context |-> build_context(search_results, max_context_tokens),
             llm_called |-> TRUE]

\* RAGService.query_stream with its generator read to the end, as the
\* WebSocket handler does: the tokens, or the apology when the generator raises
rag_query_stream(found, search_raises, llm_raises) ==
  LET search_results == search_returns(found, search_raises)
  IN IF search_results = <<>>
       THEN [response |-> <<NoInformation>>, sources |-> <<>>, context_used |-> FALSE,
             context |-> build_context(<<>>, max_context_tokens), llm_called |-> FALSE]
       ELSE [response |-> IF llm_raises THEN <<GenerationApology>> ELSE <<Generated>>,
             sources |-> extract_sources(search_results),
             context_used |-> TRUE,
             context |-> build_context(search_results, max_context_tokens),
             llm_called |-> TRUE]

TokenBudgets == {1, 100, max_context_tokens}

BuildContext ==
  \E search_results \in SearchResultLists, max_tokens \in TokenBudgets :
    /\ reply' = [op |-> "build_context", search_results |-> search_results,
                 max_tokens |-> max_tokens,
                 result |-> build_context(search_results, max_tokens)]
    /\ UNCHANGED <<storeVars, task, memVars, diskVars, ret, queryVars,
                   redisVars, rateVars, cache_ret, concVars>>

RagQuery ==
  \E found \in SearchResultLists, search_raises \in BOOLEAN, llm_raises \in BOOLEAN :
    /\ reply' = [op |-> "query", found |-> found, search_raises |-> search_raises,
                 llm_raises |-> llm_raises,
                 result |-> rag_query(found, search_raises, llm_raises)]
    /\ UNCHANGED <<storeVars, task, memVars, diskVars, ret, queryVars,
                   redisVars, rateVars, cache_ret, concVars>>

RagQueryStream ==
  \E found \in SearchResultLists, search_raises \in BOOLEAN, llm_raises \in BOOLEAN :
    /\ reply' = [op |-> "query_stream", found |-> found, search_raises |-> search_raises,
                 llm_raises |-> llm_raises,
                 result |-> rag_query_stream(found, search_raises, llm_raises)]
    /\ UNCHANGED <<storeVars, task, memVars, diskVars, ret, queryVars,
                   redisVars, rateVars, cache_ret, concVars>>

NextRag ==
  \/ BuildContext
  \/ RagQuery
  \/ RagQueryStream

SpecRag == Init /\ [][NextRag]_vars

\* ------------------------------------------------ api/routes/chat.py: chat
\* what the search may find for a chat request of the model
ChatFound == {<<>>, <<[notice |-> CHOOSE n \in FoundNotices : n.id = 1]>>}

\* lines 37-92: the cached response when there is one, else the RAG query,
\* whose answer is cached
ChatOf(q, found, search_raises, llm_raises) ==
  LET cached == get_cached_response(responses, redis_up, q)
      result == rag_query(found, search_raises, llm_raises)
      cache_data == [query |-> q, response |-> result.response,
                     sources |-> result.sources, from_cache |-> TRUE]
      r == set_cache(responses, redis_up, response_key(generate_query_hash(q)), cache_data)
  IN /\ IF cached.found
          THEN /\ reply' = [op |-> "chat", query |-> q, status |-> 200,
                            response |-> cached.value.response,
                            sources |-> cached.value.sources, from_cache |-> TRUE,
                            llm_called |-> FALSE]
               /\ UNCHANGED <<responses, popular>>
          ELSE /\ reply' = [op |-> "chat", query |-> q, status |-> 200,
                            response |-> result.response,
                            sources |-> result.sources, from_cache |-> FALSE,
                            llm_called |-> result.llm_called]
               /\ responses' = r.store
               /\ popular' = IF r.ok THEN track_query(popular, redis_up, q) ELSE popular
     /\ UNCHANGED <<storeVars, task, memVars, diskVars, ret, queryVars,
                    redis_up, counters, rateVars, cache_ret, concVars>>

\* the requests of the outage scenario: two spellings of one question
OutageQueries == {<<1>>, <<11, 0>>}

Chat ==
  \E q \in OutageQueries, found \in ChatFound, search_raises \in BOOLEAN,
     llm_raises \in BOOLEAN :
    ChatOf(q, found, search_raises, llm_raises)

\* the cache layer and the chat endpoint while Redis comes and goes
NextOutage ==
  \/ \E q \in OutageQueries : GetCachedResponseOf(q)
  \/ \E q \in OutageQueries : SetCachedResponseOf(q, "answer_1", <<1>>)
  \/ CacheCheckRateLimitOf("10.0.0.1")
  \/ Chat
  \/ RedisFails
  \/ RedisRecovers

SpecOutage == Init /\ [][NextOutage]_vars

\* ------------------------------------- the keys of the cache database
\* cached responses, the popularity set and a rate counter side by side, and
\* the two invalidations
NextKeys ==
  \/ \E q \in OutageQueries, response \in Answers : SetCachedResponseOf(q, response, <<1>>)
  \/ \E q \in OutageQueries : TrackQueryOf(q)
  \/ CacheCheckRateLimitOf("10.0.0.1")
  \/ InvalidateAllResponseCache
  \/ InvalidateCacheForNoticeType
  \/ RedisFails
  \/ RedisRecovers

SpecKeys == Init /\ [][NextKeys]_vars

\* ------------------------------ ingestion and the cached chat responses
\* chat responses are cached while no scrape runs, so that a response that is
\* there when a run ends was cached before the run persisted anything
NextInvalidate ==
  \/ ScrapeStep(1, RebuildCandidates)
  \/ /\ task[1].pc = "idle"
     /\ \E q \in OutageQueries : SetCachedResponseOf(q, "answer_1", <<1>>)

SpecInvalidate == Init /\ [][NextInvalidate]_vars

\* -------------------------------------------------------------- properties
\* the stored documents that are the candidate: title, content and category
StoredFor(store, c) ==
  {id \in DOMAIN store : /\ store[id].title = c.title
                         /\ store[id].content = c.content
                         /\ store[id].source_type = c.source_type}

\* a stored document of the candidate's category carries the candidate's hash
HashStored(c) ==
  \E id \in DOMAIN notices : /\ notices[id].title \o notices[id].content = c.title \o c.content
                             /\ notices[id].source_type = c.source_type

TitleStored(c) ==
  \E id \in DOMAIN notices : /\ notices[id].title = c.title
                             /\ notices[id].source_type = c.source_type

\* the steps of one ingest; always_indexed says whether the ingest of a
\* created document adds a vector whatever happens to its embedding
C1_Steps(always_indexed) ==
  /\ \A c \in Candidates :
       CheckHashOf(1, c) =>
         /\ StoredFor(notices, c) # {} =>
              /\ task'[1].unchanged_count = task[1].unchanged_count + 1
              /\ task'[1].new_count = task[1].new_count
              /\ task'[1].updated_count = task[1].updated_count
              /\ task'[1].pc = "loop"
              /\ notices' = notices /\ index' = index /\ mapping' = mapping
         /\ (~HashStored(c) /\ ~TitleStored(c)) =>
              task'[1].pc = "find_title" /\ task'[1].notice = c
  /\ (FindByTitle(1) /\ ~TitleStored(task[1].notice)) =>
       /\ task'[1].new_count = task[1].new_count + 1
       /\ task'[1].pc = "insert"
       /\ notices' = notices /\ index' = index
  /\ (InsertNotice(1) /\ task[1].existing_by_title = 0) =>
       /\ Cardinality(StoredFor(notices', task[1].notice)) = 1
       /\ Cardinality(DOMAIN notices') = Cardinality(DOMAIN notices) + 1
       /\ index' = index
  /\ EmbedNotice(1) => Len(index') = Len(index) + 1 /\ notices' = notices
  /\ EmbedRaises(1) =>
       /\ notices' = notices
       /\ IF always_indexed THEN Len(index') = Len(index) + 1 ELSE index' = index

\* C1 (amended): a candidate whose title and whose hash its category does not
\* hold yet is created; ingesting it again is unchanged and changes neither the
\* collection nor the index; the collection holds exactly one document for it;
\* the index grows by one vector when the embedding of the created document
\* succeeds and by none when it fails.
C1_IdempotentIngest ==
  /\ [](\A c \in Candidates : Cardinality(StoredFor(notices, c)) <= 1)
  /\ [][C1_Steps(FALSE)]_vars

\* C1 as stated: the same, and the index grows by exactly one vector across the
\* two ingests whatever happens to the embedding.
C1_IndexGrowsByOne ==
  /\ [](\A c \in Candidates : Cardinality(StoredFor(notices, c)) <= 1)
  /\ [][C1_Steps(TRUE)]_vars

\* one run created a notice and then found the same candidate unchanged
C1_Witness ==
  /\ task[1].new_count = 1
  /\ task[1].unchanged_count = 1
  /\ Cardinality(DOMAIN notices) = 1
  /\ Len(index) = 1

\* C2: at most one document per (title, category) is the latest one, also
\* when two runs of scrape_all_sources overlap.
C2_OneLatestPerKey ==
  \A title \in Titles, source_type \in NoticeType :
    Cardinality(LatestByTitle(title, source_type)) <= 1

\* C3: once a (title, category) key has a stored document, the key has exactly
\* one latest document in every state, the states inside an update and after
\* a failed insert included.
C3_ExactlyOneLatest ==
  \A id \in DOMAIN notices :
    Cardinality(LatestByTitle(notices[id].title, notices[id].source_type)) = 1

SameKey(a, b) ==
  /\ notices[a].title = notices[b].title
  /\ notices[a].source_type = notices[b].source_type

C5_UnchangedIffLatest ==
  [][\A c \in ChainCandidates :
       CheckHashOf(1, c) =>
         ((task'[1].unchanged_count = task[1].unchanged_count + 1)
            <=> \E id \in DOMAIN notices :
                  /\ notices[id].is_latest
                  /\ notices[id].content_hash = generate_content_hash(c.title \o c.content)
                  /\ notices[id].source_type = c.source_type)]_vars

Dense(m) == DOMAIN m.mapping = 0 .. (Len(m.index) - 1)

\* C6: from an empty index, after any sequence of add_embedding,
\* batch_add_embeddings and rebuild_index calls the mapping's keys are exactly
\* 0..ntotal-1, get_index_stats reports total_vectors = mapping_size, an add
\* returns the count held before the call (a batch: that count and the
\* following slots), and no add changes the notice id of a slot mapped before.
C6_DenseSlots ==
  /\ [](/\ Dense(Mem)
        /\ get_index_stats(Mem, Disk).total_vectors = get_index_stats(Mem, Disk).mapping_size)
  /\ [][/\ AddEmbedding => ret' = <<Len(index)>>
        /\ BatchAddEmbeddings =>
             ret' = [i \in 1 .. (Len(index') - Len(index)) |-> Len(index) + i - 1]
        /\ (AddEmbedding \/ BatchAddEmbeddings) =>
             \A slot \in DOMAIN mapping :
               slot \in DOMAIN mapping' /\ mapping'[slot] = mapping[slot]]_vars

C6_Witness ==
  /\ Len(index) >= 3
  /\ ret = <<1, 2>>
  /\ disk_index.state = "ok"
  /\ mapping[0] # mapping[1]

\* C7: when the rebuild_faiss_index task returns, the index holds one vector
\* for each latest document and nothing else: no notice id is mapped by two
\* slots and no mapped id is a document that is not the latest.
C7_RebuildExact ==
  [][RebuildFaissIndex("ok") =>
       LET latest == {id \in DOMAIN notices : notices[id].is_latest}
       IN /\ Len(index') = Cardinality(latest)
          /\ \A id \in latest :
               Cardinality({slot \in DOMAIN mapping' : mapping'[slot] = id}) = 1
          /\ \A slot \in DOMAIN mapping' : mapping'[slot] \in latest]_vars

\* C8: when get_index() loads from disk, the pair in memory is never a
\* non-empty index with a mapping that does not cover exactly its slots.
C8_LoadFailsClosed ==
  [][GetIndex => (index' = <<>> \/ Dense(Mem'))]_vars

\* C9: search with k above the number of stored vectors returns exactly the
\* stored entries and no padding entry (slot -1).
C9_NoPadding ==
  (index_loaded /\ hits.top_k > Len(index)) =>
    /\ Len(hits.indices) = Len(index)
    /\ \A i \in DOMAIN hits.indices : hits.indices[i] # -1

\* the distance between the query and the document that a result carries
TrueDistance2(result) ==
  Distance2(generate_embedding(query.text),
            generate_embedding(combine_text_for_embedding(result.notice.title,
                                                          result.notice.content)))

\* C10: search_relevant_notices returns at most top_k results, in the order of
\* non-increasing similarity 1/(1+distance), and no returned document is
\* farther from the query than the similarity threshold.
C10_BoundedSortedWithinThreshold ==
  /\ Len(results) <= query.top_k
  /\ \A i, j \in DOMAIN results :
       i < j => AtLeast(results[i].similarity_score, results[j].similarity_score)
  /\ \A i \in DOMAIN results : TrueDistance2(results[i]) <= similarity_threshold2

\* the answer and the sources a read of the response cache gives for a query
Cached(store, q) == get_cached_response(store, TRUE, q)

Score(zset, member) == IF member \in DOMAIN zset THEN zset[member] ELSE 0

\* C15: every track_query(q) strictly increases the score of lower(strip(q))
\* by one, so that the score counts the calls, and get_popular_queries(n)
\* returns the n highest scored queries, the higher score first.
C15_PopularityCounts ==
  [][/\ \A q \in UserQueries :
          (TrackQueryOf(q) /\ redis_up) =>
            Score(popular', strip(lower(q))) = Score(popular, strip(lower(q))) + 1
     /\ (GetPopularQueries /\ redis_up) =>
          LET top == cache_ret'.result
          IN /\ Len(top) = Min(cache_ret'.count, Cardinality(DOMAIN popular))
             /\ \A i \in DOMAIN top : popular[top[i][1]] = top[i][2]
             /\ \A i \in DOMAIN top : \A m \in DOMAIN popular :
                  m \notin {top[j][1] : j \in DOMAIN top} => popular[m] <= top[i][2]
             /\ \A i, j \in DOMAIN top : i < j => top[i][2] >= top[j][2]]_vars

\* the accepted checks of an identifier that are less than a window old
RecentlyAccepted(identifier) ==
  Cardinality({i \in DOMAIN AcceptedAt(identifier) :
                 now - AcceptedAt(identifier)[i] < rate_config.window})

\* C12: SimpleCache.check_rate_limit accepts a check exactly when fewer than
\* limit accepted checks of the identifier are less than window seconds old;
\* a rejected check is not recorded, and the count it returns is the number
\* of recorded requests.
C12_SlidingWindow ==
  [][\A client_ip \in Clients :
       CheckRateLimitOf(client_ip) =>
         /\ cache_ret'.allowed <=> RecentlyAccepted(client_ip) < rate_config.limit
         /\ cache_ret'.count = RecentlyAccepted(client_ip) + (IF cache_ret'.allowed THEN 1 ELSE 0)
         /\ Len(rate_limits'[client_ip]) = cache_ret'.count]_vars

\* limit 3, window 2: three checks were accepted at time 0, one was rejected
\* in the window, and the check at time 2 is accepted
C12_Witness ==
  /\ rate_config = [limit |-> 3, window |-> 2]
  /\ accepted_at = ("10.0.0.1" :> <<0, 0, 0, 2>>)
  /\ rate_limits["10.0.0.1"] = <<2>>
  /\ cache_ret.allowed /\ cache_ret.at = 2

\* C13: CacheService.check_rate_limit rejects a check only when at least limit
\* checks of the identifier were accepted within the preceding window; rejected
\* checks are not recorded, so a check made more than a window after the last
\* accepted one is accepted.
C13_RejectedNotRecorded ==
  [][\A identifier \in Clients :
       CacheCheckRateLimitOf(identifier) =>
         /\ ~cache_ret'.allowed =>
              Cardinality({i \in DOMAIN AcceptedAt(identifier) :
                             now - AcceptedAt(identifier)[i] <= rate_config.window})
                >= rate_config.limit
         /\ (\A i \in DOMAIN AcceptedAt(identifier) :
               now - AcceptedAt(identifier)[i] > rate_config.window)
              => cache_ret'.allowed]_vars

IsQuery == reply.op \in {"query", "query_stream"}

SearchReturned == search_returns(reply.found, reply.search_raises)

\* C16: when the search returns no result, query returns the fixed "no
\* information" answer with no sources and does not call the generator, and
\* query_stream yields only that message with no sources and does not call
\* the generator either.
C16_NoResultsNoGeneration ==
  (IsQuery /\ SearchReturned = <<>>) =>
    /\ reply.result.response = IF reply.op = "query" THEN NoInformation ELSE <<NoInformation>>
    /\ reply.result.sources = <<>>
    /\ ~reply.result.llm_called

\* query_stream met a search that found nothing
C16_Witness ==
  /\ reply.op = "query_stream"
  /\ reply.found = <<>>
  /\ ~reply.search_raises
  /\ reply.result.response = <<NoInformation>>

\* C17: the sources that query and query_stream return are exactly the
\* notices whose entries are in the context that build_context built.
C17_SourcesAreContext ==
  (IsQuery /\ reply.result.context_used) =>
    reply.result.sources = reply.result.context.included

\* C18: the context that build_context returns has at most max_tokens * 4
\* characters, also when its last entry is a truncated one.
C18_ContextWithinBudget ==
  reply.op = "build_context" => reply.result.chars <= reply.max_tokens * 4

\* C19: when the generator raises during query, the caller gets the apology
\* with an empty source list.
C19_ApologyWithoutSources ==
  (reply.op = "query" /\ reply.result.llm_called /\ reply.llm_raises) =>
    /\ reply.result.response = GenerationApology
    /\ reply.result.sources = <<>>

\* C20: when embedding, search or the fetch of the documents raises during
\* query, the answer is not the "no information" answer of an empty search.
C20_SearchFailureDistinct ==
  (reply.op = "query" /\ reply.search_raises) =>
    reply.result.response # NoInformation

\* C14: while the cache backend is unreachable, get_cached_response returns
\* none, set_cached_response returns false and stores nothing,
\* CacheService.check_rate_limit allows the check, and a chat request is
\* answered (status 200) with the answer of the RAG query, not from the cache.
C14_CacheOutageTolerated ==
  [][~redis_up =>
       /\ GetCachedResponse => ~cache_ret'.result.found
       /\ SetCachedResponse =>
            /\ cache_ret'.result = FALSE
            /\ responses' = responses /\ popular' = popular
       /\ CacheCheckRateLimit => cache_ret'.allowed /\ counters' = counters
       /\ \A q \in OutageQueries, found \in ChatFound, search_raises \in BOOLEAN,
             llm_raises \in BOOLEAN :
            ChatOf(q, found, search_raises, llm_raises) =>
              /\ reply'.status = 200
              /\ ~reply'.from_cache
              /\ reply'.response = rag_query(found, search_raises, llm_raises).response
              /\ reply'.sources = rag_query(found, search_raises, llm_raises).sources
              /\ responses' = responses]_vars

\* a chat request was answered by the generator while Redis, which holds a
\* cached response for the query, was down
C14_Witness ==
  /\ ~redis_up
  /\ reply.op = "chat"
  /\ reply.response = Generated
  /\ ~reply.from_cache
  /\ get_cached_response(responses, TRUE, reply.query).found

\* C30: invalidate_cache_for_notice_type(t), for every t, and
\* invalidate_all_response_cache() remove every cached response (when Redis
\* answers) and nothing else: the popularity scores and the rate-limit
\* counters are left as they were, and a scraper last-run key does not match
\* the pattern.
C30_InvalidationFrame ==
  [][(InvalidateAllResponseCache \/ InvalidateCacheForNoticeType) =>
       /\ redis_up => responses' = EmptyMapping
       /\ popular' = popular
       /\ counters' = counters
       /\ \A t \in NoticeType :
            LET last_run == <<SCRAPER_LAST_RUN_PREFIX, t>> :> now
            IN delete_cache_pattern(last_run, redis_up, RESPONSE_PREFIX) = last_run]_vars

\* an invalidation by notice type removed cached responses while popularity
\* scores and a rate counter were there
C30_Witness ==
  /\ cache_ret.op = "invalidate_cache_for_notice_type"
  /\ cache_ret.result > 0
  /\ responses = EmptyMapping
  /\ popular # EmptyMapping
  /\ counters # EmptyMapping

\* the documents a run has inserted so far (the counters are raised before
\* insert_one is called)
PersistedInRun(f) ==
  f.new_count + f.updated_count - (IF f.pc = "insert" THEN 1 ELSE 0)

\* C21: when a run of scrape_all_sources that has persisted a created or
\* updated document ends, by returning or by raising, no response that was
\* cached before the run is left in the response cache.
C21_InvalidatedAtRunEnd ==
  [][((FinishScrape(1) \/ InsertRaises(1)) /\ PersistedInRun(task[1]) > 0) =>
       responses' = EmptyMapping]_vars

\* C22: when ingest has added the embedding of the document it just inserted,
\* the stored document's faiss_index_id is the slot the index add returned.
C22_VectorRefRecorded ==
  [][EmbedNotice(1) =>
       LET id == task[1].notice_id
       IN /\ "faiss_index_id" \in DOMAIN notices'[id]
          /\ notices'[id].faiss_index_id = Len(index') - 1]_vars

\* C25: when a run of scrape_all_sources that created or updated documents
\* returns, the index file and the mapping file hold the index and the
\* mapping of the process, the slots added during the run included.
C25_FlushedAfterScrape ==
  [][(FinishScrape(1) /\ task[1].new_count + task[1].updated_count > 0 /\ index_loaded) =>
       /\ disk_index' = [state |-> "ok", vectors |-> index']
       /\ disk_mapping' = [state |-> "ok", map |-> mapping']]_vars

\* C23: when embedding or the index add fails for the document ingest has
\* just inserted, the document stays stored as the current version, the run
\* keeps its created/updated count and goes on with the next candidate; and a
\* run of rebuild_faiss_index that embeds and adds its batch leaves every
\* current document's id in the slot mapping.
C23_PartialFailureRepaired ==
  [][/\ EmbedRaises(1) =>
          /\ notices' = notices
          /\ task[1].notice_id \in DOMAIN notices
          /\ notices[task[1].notice_id].is_latest
          /\ task'[1].pc = "loop"
          /\ task'[1].new_count = task[1].new_count
          /\ task'[1].updated_count = task[1].updated_count
          /\ task[1].new_count + task[1].updated_count > 0
     /\ \A outcome \in SaveOutcomes :
          RebuildFaissIndex(outcome) =>
            \A id \in DOMAIN notices : notices[id].is_latest => id \in Range(mapping')]_vars

\* the only notice, whose embedding failed during ingest, has its id in the
\* mapping after a rebuild run that saved the index
C23_Witness ==
  /\ DOMAIN notices = {1}
  /\ notices[1].is_latest
  /\ Len(index) = 1
  /\ mapping = (0 :> 1)
  /\ disk_index = [state |-> "ok", vectors |-> index]

\* C24: cleanup_old_versions deletes no document with is_latest = true, leaves
\* at most five documents of every (title, source_type) group, those of the
\* highest versions, and leaves the index, the slot mapping and their files
\* as they were.
C24_CleanupKeepsCurrent ==
  [][CleanupOldVersions =>
       /\ \A id \in DOMAIN notices \ DOMAIN notices' : ~notices[id].is_latest
       /\ \A id \in DOMAIN notices' :
            /\ Cardinality(GroupOf(notices', id)) <= KeepVersions
            /\ \A d \in GroupOf(notices, id) \ DOMAIN notices' :
                 notices[d].version <= notices[id].version
       /\ UNCHANGED <<memVars, diskVars>>]_vars

\* the slot holds the vector of the document the mapping names for it
SlotMapped(slot) ==
  /\ slot \in DOMAIN mapping
  /\ slot < Len(index)
  /\ \E ne \in StoreNotices : ne[1] = mapping[slot] /\ ne[2] = index[slot + 1]

\* C26: with one writer and a reader running together, every slot the reader
\* got from search has, when the reader calls get_notice_ids, a mapping entry
\* for the document whose vector is at that slot; and a reader whose last
\* search found documents does not, during a rebuild that has vectors to add,
\* get the answer of an empty index.
C26_ReaderSeesConsistentIndex ==
  [][/\ ReaderGetNoticeIds =>
          \A i \in DOMAIN reader.indices :
            reader.indices[i] >= 0 => SlotMapped(reader.indices[i])
     /\ (/\ ReaderSearch
         /\ reader.notice_ids # <<>>
         /\ writer.op = "rebuild_index"
         /\ writer.notice_ids # <<>>) =>
          \E i \in DOMAIN reader'.indices : reader'.indices[i] >= 0]_vars

\* the calls of a burst have all returned
Returned(impl) == \A c \in CallsOf(impl) : calls[<<impl, c>>].pc = "done"
Counts(impl) == {calls[<<impl, c>>].count : c \in CallsOf(impl)}
Accepted(impl) == {c \in CallsOf(impl) : calls[<<impl, c>>].allowed}

\* C27 as stated: of n calls of one identifier inside one window, with either
\* implementation, the calls observe the distinct counts 1..n and exactly
\* min(n, limit) are accepted.
C27_DistinctCounts ==
  \A impl \in {"redis", "simple"} :
    Returned(impl) =>
      /\ Counts(impl) = 1 .. Cardinality(CallsOf(impl))
      /\ Cardinality(Accepted(impl)) = Min(Cardinality(CallsOf(impl)), rate_config.limit)

\* C27 amended: with either implementation exactly min(n, limit) of the n
\* calls are accepted.  The calls of CacheService.check_rate_limit observe the
\* distinct counts 1..n; with SimpleCache.check_rate_limit the accepted calls
\* observe the distinct counts 1..min(n, limit) and every rejected call
\* observes the count limit.
C27_NoLostRequest ==
  /\ \A impl \in {"redis", "simple"} :
       Returned(impl) =>
         Cardinality(Accepted(impl)) = Min(Cardinality(CallsOf(impl)), rate_config.limit)
  /\ Returned("redis") =>
       /\ Counts("redis") = 1 .. Cardinality(CallsOf("redis"))
       /\ Accepted("redis") =
            {c \in CallsOf("redis") : calls[<<"redis", c>>].count <= rate_config.limit}
  /\ /\ {calls[<<"simple", c>>].count : c \in Accepted("simple")}
          = 1 .. Cardinality(Accepted("simple"))
     /\ \A c \in CallsOf("simple") \ Accepted("simple") :
          calls[<<"simple", c>>].count = rate_config.limit

\* three calls with each implementation under the limit 2 have returned:
\* two are accepted, one rejected
C27_Witness ==
  /\ rate_config.limit = 2
  /\ \A impl \in {"redis", "simple"} :
       /\ Cardinality(CallsOf(impl)) = 3
       /\ Returned(impl)
       /\ Cardinality(Accepted(impl)) = 2

\* C28: every document search_relevant_notices returns carries the distance
\* the index reported for the document's own slot, also when slots before it
\* were skipped for want of a mapping entry or of a current document.
C28_DistancesAligned ==
  \A i \in DOMAIN results : results[i].distance = TrueDistance2(results[i])

\* C29: a chat request that is answered with the apology of a failed
\* generation, or with the "no information" answer of a search that raised,
\* writes nothing to the response cache.
C29_FailureNotCached ==
  [][\A q \in OutageQueries, found \in ChatFound, search_raises \in BOOLEAN,
        llm_raises \in BOOLEAN :
       (/\ ChatOf(q, found, search_raises, llm_raises)
        /\ ~get_cached_response(responses, redis_up, q).found
        /\ search_raises \/ (found # <<>> /\ llm_raises)) =>
         responses' = responses]_vars

====
